---- MODULE Spec2Model ----
(***************************************************************************)
(* numTwo: the schema-migration engine (MigrationManager) over an          *)
(* IDatabase adapter (DenoDatabase / NodeDatabase) and an IFileSystem.     *)
(*                                                                         *)
(* The store is the pair (ledger, schema): the rows of the `migrations`    *)
(* table and the objects the executed migration scripts have created.      *)
(* One migrateTo call is a chain of atomic sections delimited by the       *)
(* awaits of the code: loadMigrations, getLatestVersion, resolveSql.       *)
(* applied_at (Date.now()) is not modelled: no operation reads it back     *)
(* except showStatus' printing.                                            *)
(***************************************************************************)
EXTENDS Integers, Sequences, FiniteSets, TLC

\* ---------------------------------------------------------------- bounds
\* Longest migration list of a source file.
MaxN == 2
\* Longest list and largest version handed to the validator alone.
MaxLen == 3
\* Length of the source whose revisions grow from 2 to 4 migrations.
MaxL == 4
\* Deepest nesting of transaction(fn) calls on one connection.
MaxDepth == 2

\* ---------------------------------------------------------------- sequences
Range(s) == { s[i] : i \in 1..Len(s) }
Last(s) == s[Len(s)]

\* ---------------------------------------------------------------- SQL texts
\* A script's text, by what executing it does to the store: it creates or
\* drops the object obj; tag tells two texts creating the same object apart.
\* "add" is a text that is not idempotent (INSERT INTO obj ...): executed
\* again it leaves a second copy.
\* "none" is the empty string; NoFile marks a path that cannot be read.
Sql(op, o, t) == [op |-> op, obj |-> o, tag |-> t]
Create(o) == Sql("create", o, "inline")
Drop(o) == Sql("drop", o, "inline")
Add(o) == Sql("add", o, "inline")
EmptySql == Sql("none", 0, "")
NoFile == Sql("nofile", 0, "")
SqlA == Sql("create", 0, "A")
SqlB == Sql("create", 0, "B")
SqlDownA == Sql("drop", 0, "A")

\* IFileSystem.readTextFile: the two SQL files the model's sources refer to.
UpPath == "up.sql"
DownPath == "down.sql"
Paths == {UpPath, DownPath}
Files(u, d) == [p \in Paths |-> IF p = UpPath THEN u ELSE d]
AllPresent == Files(SqlA, SqlDownA)
\* At most one of the two files differs from AllPresent.
FileStates ==
    { Files(u, SqlDownA) : u \in {NoFile, EmptySql, SqlA, SqlB} }
        \cup { Files(SqlA, d) : d \in {NoFile, EmptySql} }

\* ---------------------------------------------------------------- Migration
\* up / down of a Migration: string | { file: string } | null
Inline(s) == [kind |-> "inline", sql |-> s, file |-> ""]
FileRef(p) == [kind |-> "file", sql |-> EmptySql, file |-> p]
Null == [kind |-> "null", sql |-> EmptySql, file |-> ""]

Kinds == {"plain", "seed", "oneway", "sealed", "nodown", "emptydown", "file", "emptyup"}

Migration(v, k) ==
    [ version |-> v,
      name |-> k,
      description |-> IF k \in {"oneway", "sealed"} THEN "irreversible" ELSE "reversible",
      reversible |-> k \notin {"oneway", "sealed"},
      up |-> CASE k = "file" -> FileRef(UpPath)
               [] k = "emptyup" -> Inline(EmptySql)
               [] k = "seed" -> Inline(Add(v))
               [] OTHER -> Inline(Create(v)),
      down |-> CASE k = "file" -> FileRef(DownPath)
                 [] k \in {"sealed", "nodown"} -> Null
                 [] k = "emptydown" -> Inline(EmptySql)
                 [] OTHER -> Inline(Drop(v)) ]

\* JavaScript truthiness of a script value (`!migration.down`, `!upSql`).
Truthy(script) ==
    \/ script.kind = "file"
    \/ script.kind = "inline" /\ script.sql # EmptySql

\* ---------------------------------------------------------------- errors
NoError == [kind |-> "none", version |-> 0, cause |-> "none", expected |-> 0, got |-> 0]
Err(k, v, c) == [kind |-> k, version |-> v, cause |-> c, expected |-> 0, got |-> 0]
SeqErr(e, g) == [kind |-> "load", version |-> 0, cause |-> "sequence", expected |-> e, got |-> g]

\* ---------------------------------------------------------------- loader
\* Array.prototype.sort((a, b) => a.version - b.version): stable, ascending.
RECURSIVE InsertByVersion(_, _)
InsertByVersion(m, s) ==
    IF s = <<>> THEN <<m>>
    ELSE IF m.version < Head(s).version THEN <<m>> \o s
    ELSE <<Head(s)>> \o InsertByVersion(m, Tail(s))

RECURSIVE SortByVersion(_)
SortByVersion(s) ==
    IF s = <<>> THEN <<>>
    ELSE InsertByVersion(s[Len(s)], SortByVersion(SubSeq(s, 1, Len(s) - 1)))

\* Variants of the sequence loop: one expecting the 0-based index, one that
\* keeps the last violation instead of throwing at the first.
RECURSIVE SequenceCheckOffByOne(_, _)
SequenceCheckOffByOne(ms, i) ==
    IF i > Len(ms) THEN NoError
    ELSE IF ms[i].version # i - 1 THEN SeqErr(i - 1, ms[i].version)
    ELSE SequenceCheckOffByOne(ms, i + 1)

RECURSIVE SequenceCheckLast(_, _)
SequenceCheckLast(ms, i) ==
    IF i > Len(ms) THEN NoError
    ELSE LET rest == SequenceCheckLast(ms, i + 1)
         IN  IF rest # NoError THEN rest
             ELSE IF ms[i].version # i THEN SeqErr(i, ms[i].version)
             ELSE NoError

\* The sequence loop of loadMigrations from 0-based index i - 1 on:
\* migrations[i - 1].version !== i throws "expected version i, got ...".
RECURSIVE SequenceCheck(_, _)
SequenceCheck(ms, i) ==
    IF i > Len(ms) THEN NoError
    ELSE IF ms[i].version # i THEN SeqErr(i, ms[i].version)
    ELSE SequenceCheck(ms, i + 1)

\* A variant that reads the up references only.
RECURSIVE validateMigrationFilesUpOnly(_, _, _)
validateMigrationFilesUpOnly(ms, fs, i) ==
    IF i > Len(ms) THEN NoError
    ELSE IF ms[i].up.kind = "file" /\ fs[ms[i].up.file] = NoFile
         THEN Err("load", ms[i].version, "upfile")
    ELSE validateMigrationFilesUpOnly(ms, fs, i + 1)

\* validateMigrationFiles from index i on: the first reference that cannot be
\* read, up before down, in list order.
RECURSIVE validateMigrationFiles(_, _, _)
validateMigrationFiles(ms, fs, i) ==
    IF i > Len(ms) THEN NoError
    ELSE IF ms[i].up.kind = "file" /\ fs[ms[i].up.file] = NoFile
         THEN Err("load", ms[i].version, "upfile")
    ELSE IF ms[i].down.kind = "file" /\ fs[ms[i].down.file] = NoFile
         THEN Err("load", ms[i].version, "downfile")
    ELSE validateMigrationFiles(ms, fs, i + 1)

\* The migration source file (migrationsPath) as readTextFile and yamlParser
\* see it: unreadable, unparseable, or a list in declaration order.
Source(st, ms) == [status |-> st, migrations |-> ms]
Unreadable == Source("unreadable", <<>>)
Unparseable == Source("unparseable", <<>>)

\* The paths validateMigrationFiles hands to readTextFile from index i on, in
\* order, up to the first that cannot be read.
RECURSIVE filesRead(_, _, _)
filesRead(ms, fs, i) ==
    IF i > Len(ms) THEN <<>>
    ELSE LET upRef == ms[i].up.kind = "file"
             upOk == ~upRef \/ fs[ms[i].up.file] # NoFile
             downRef == upOk /\ ms[i].down.kind = "file"
             downOk == ~downRef \/ fs[ms[i].down.file] # NoFile
         IN  (IF upRef THEN <<ms[i].up.file>> ELSE <<>>)
                 \o (IF downRef THEN <<ms[i].down.file>> ELSE <<>>)
                 \o (IF upOk /\ downOk THEN filesRead(ms, fs, i + 1) ELSE <<>>)

\* A variant that validates the file references before the sequence.
loadMigrationsFilesFirst(src, fs) ==
    IF src.status = "unreadable"
    THEN [error |-> Err("load", 0, "read"), migrations |-> <<>>, opened |-> <<>>]
    ELSE IF src.status = "unparseable"
    THEN [error |-> Err("load", 0, "parse"), migrations |-> <<>>, opened |-> <<>>]
    ELSE LET sorted == SortByVersion(src.migrations)
             seqErr == SequenceCheck(sorted, 1)
             fileErr == validateMigrationFiles(sorted, fs, 1)
             opened == filesRead(sorted, fs, 1)
         IN  IF fileErr # NoError
             THEN [error |-> fileErr, migrations |-> <<>>, opened |-> opened]
             ELSE IF seqErr # NoError
             THEN [error |-> seqErr, migrations |-> <<>>, opened |-> opened]
             ELSE [error |-> NoError, migrations |-> sorted, opened |-> opened]

\* loadMigrations: [error, migrations, opened], opened being the referenced
\* SQL files it read.
loadMigrations(src, fs) ==
    IF src.status = "unreadable"
    THEN [error |-> Err("load", 0, "read"), migrations |-> <<>>, opened |-> <<>>]
    ELSE IF src.status = "unparseable"
    THEN [error |-> Err("load", 0, "parse"), migrations |-> <<>>, opened |-> <<>>]
    ELSE LET sorted == SortByVersion(src.migrations)
             seqErr == SequenceCheck(sorted, 1)
             fileErr == validateMigrationFiles(sorted, fs, 1)
             opened == filesRead(sorted, fs, 1)
         IN  IF seqErr # NoError
             THEN [error |-> seqErr, migrations |-> <<>>, opened |-> <<>>]
             ELSE IF fileErr # NoError
             THEN [error |-> fileErr, migrations |-> <<>>, opened |-> opened]
             ELSE [error |-> NoError, migrations |-> sorted, opened |-> opened]

\* A variant without the guard for the empty list: Math.max() of no
\* arguments is below every version (-Infinity, here -1).
RECURSIVE MaxVersionUnguarded(_)
MaxVersionUnguarded(ms) ==
    IF ms = <<>> THEN 0 - 1
    ELSE LET rest == MaxVersionUnguarded(Tail(ms))
         IN  IF Head(ms).version > rest THEN Head(ms).version ELSE rest

\* Math.max(...migrations.map(m => m.version)), 0 for the empty list.
RECURSIVE MaxVersion(_)
MaxVersion(ms) ==
    IF ms = <<>> THEN 0
    ELSE LET rest == MaxVersion(Tail(ms))
         IN  IF Head(ms).version > rest THEN Head(ms).version ELSE rest

\* getLatestVersion: loads the source again and takes the largest version.
getLatestVersion(src, fs) ==
    LET r == loadMigrations(src, fs)
    IN  [error |-> r.error, latest |-> MaxVersion(r.migrations)]

\* A variant that serves a file's text as it was when the manager was made.
resolveSqlCached(script, fs) ==
    IF script.kind = "null" THEN [error |-> "none", sql |-> EmptySql]
    ELSE IF script.kind = "inline" THEN [error |-> "none", sql |-> script.sql]
    ELSE [error |-> "none", sql |-> AllPresent[script.file]]

\* resolveSql: the text of a script at the time of the call.
resolveSql(script, fs) ==
    IF script.kind = "null" THEN [error |-> "none", sql |-> EmptySql]
    ELSE IF script.kind = "inline" THEN [error |-> "none", sql |-> script.sql]
    ELSE IF fs[script.file] = NoFile THEN [error |-> "file", sql |-> EmptySql]
    ELSE [error |-> "none", sql |-> fs[script.file]]

\* ---------------------------------------------------------------- store
\* The ledger table: rows keyed by version (INTEGER PRIMARY KEY).
Row(m) == [version |-> m.version, name |-> m.name, description |-> m.description]
Versions(rows) == { r.version : r \in rows }

\* A variant selecting MIN(version).
getCurrentVersionMin(rows) ==
    IF rows = {} THEN 0
    ELSE CHOOSE v \in Versions(rows) : \A w \in Versions(rows) : v <= w

\* A variant without the "?? 0" default: MAX over no rows is NULL, shown as -1.
getCurrentVersionNoDefault(rows) ==
    IF rows = {} THEN 0 - 1
    ELSE CHOOSE v \in Versions(rows) : \A w \in Versions(rows) : w <= v

\* SELECT MAX(version) FROM migrations, 0 on the empty table.
getCurrentVersion(rows) ==
    IF rows = {} THEN 0
    ELSE CHOOSE v \in Versions(rows) : \A w \in Versions(rows) : w <= v

\* db.exec(sql) of a migration script.
Exec(sql, objs) ==
    IF sql.op = "create" THEN objs \cup {[obj |-> sql.obj, tag |-> sql.tag]}
    ELSE IF sql.op = "add"
    THEN objs \cup {[obj |-> sql.obj,
                     tag |-> IF \E o \in objs : o.obj = sql.obj THEN "again" ELSE sql.tag]}
    ELSE IF sql.op = "drop" THEN { o \in objs : o.obj # sql.obj }
    ELSE objs

\* The statements one transaction may be made to fail by the SQL engine.
Statements == {"begin", "sql", "write", "commit", "rollback"}
\* One statement fails at most, and the ROLLBACK after it may fail too.
Faults == { f \in SUBSET Statements : Cardinality(f \ {"rollback"}) <= 1 }

\* A variant whose DELETE removes no row.
StepBodyKeepsRow(st, step, f) ==
    IF "sql" \in f THEN [cause |-> "sql", store |-> st]
    ELSE LET objs == Exec(step.sql, st.schema)
         IN  IF step.write = "insert"
             THEN IF "write" \in f \/ step.row.version \in Versions(st.ledger)
                  THEN [cause |-> "insert", store |-> [st EXCEPT !.schema = objs]]
                  ELSE [cause |-> "none",
                        store |-> [ledger |-> st.ledger \cup {step.row}, schema |-> objs]]
             ELSE IF "write" \in f
                  THEN [cause |-> "delete", store |-> [st EXCEPT !.schema = objs]]
                  ELSE [cause |-> "none", store |-> [st EXCEPT !.schema = objs]]

\* A variant whose DELETE takes every row up to the version.
StepBodyDeletesUpTo(st, step, f) ==
    IF "sql" \in f THEN [cause |-> "sql", store |-> st]
    ELSE LET objs == Exec(step.sql, st.schema)
         IN  IF step.write = "insert"
             THEN IF "write" \in f \/ step.row.version \in Versions(st.ledger)
                  THEN [cause |-> "insert", store |-> [st EXCEPT !.schema = objs]]
                  ELSE [cause |-> "none",
                        store |-> [ledger |-> st.ledger \cup {step.row}, schema |-> objs]]
             ELSE IF "write" \in f
                  THEN [cause |-> "delete", store |-> [st EXCEPT !.schema = objs]]
                  ELSE [cause |-> "none",
                        store |-> [ledger |-> { r \in st.ledger : r.version > step.row.version },
                                   schema |-> objs]]

\* The function handed to db.transaction by migrateUp (write = "insert") and
\* migrateDown (write = "delete"): exec(sql), then the ledger statement.
\* INSERT fails on an existing key; DELETE of an absent key deletes nothing.
StepBody(st, step, f) ==
    IF "sql" \in f THEN [cause |-> "sql", store |-> st]
    ELSE LET objs == Exec(step.sql, st.schema)
         IN  IF step.write = "insert"
             THEN IF "write" \in f \/ step.row.version \in Versions(st.ledger)
                  THEN [cause |-> "insert", store |-> [st EXCEPT !.schema = objs]]
                  ELSE [cause |-> "none",
                        store |-> [ledger |-> st.ledger \cup {step.row}, schema |-> objs]]
             ELSE IF "write" \in f
                  THEN [cause |-> "delete", store |-> [st EXCEPT !.schema = objs]]
                  ELSE [cause |-> "none",
                        store |-> [ledger |-> { r \in st.ledger : r.version # step.row.version },
                                   schema |-> objs]]

\* DenoDatabase.transaction.  [store, flag, cause, failed]: the store and the
\* inTransaction flag it leaves, the error it throws ("none": it returned)
\* and the first statement that failed.  A ROLLBACK that throws is SQLite's
\* "no transaction is active": the engine had already undone the unit.
DenoTransaction(flag, st, step, f) ==
    IF flag
    THEN LET r == StepBody(st, step, f)
         IN  [store |-> r.store, flag |-> TRUE, cause |-> r.cause, failed |-> r.cause]
    ELSE IF "begin" \in f
    THEN [store |-> st, flag |-> TRUE, cause |-> "begin", failed |-> "begin"]
    ELSE LET r == StepBody(st, step, f)
             first == IF r.cause = "none" THEN "commit" ELSE r.cause
         IN  IF r.cause = "none" /\ "commit" \notin f
             THEN [store |-> r.store, flag |-> FALSE, cause |-> "none", failed |-> "none"]
             ELSE IF "rollback" \in f
             THEN [store |-> st, flag |-> TRUE, cause |-> "rollback", failed |-> first]
             ELSE [store |-> st, flag |-> FALSE, cause |-> first, failed |-> first]

\* NodeDatabase.transaction: better-sqlite3's native wrapper, which rolls
\* back only while the engine still holds the unit and rethrows fn's error.
NodeTransaction(flag, st, step, f) ==
    IF "begin" \in f
    THEN [store |-> st, flag |-> flag, cause |-> "begin", failed |-> "begin"]
    ELSE LET r == StepBody(st, step, f)
             first == IF r.cause = "none" THEN "commit" ELSE r.cause
         IN  IF r.cause = "none" /\ "commit" \notin f
             THEN [store |-> r.store, flag |-> flag, cause |-> "none", failed |-> "none"]
             ELSE [store |-> st, flag |-> flag, cause |-> first, failed |-> first]

\* A variant that returns from fn without COMMIT: the unit stays open and
\* its writes stay pending.
transactionLeftOpen(ad, flag, st, step, f) ==
    LET t == NodeTransaction(flag, st, step, f)
    IN  IF t.cause = "none" THEN [t EXCEPT !.store = st, !.flag = TRUE] ELSE t

transaction(ad, flag, st, step, f) ==
    IF ad = "deno" THEN DenoTransaction(flag, st, step, f)
    ELSE NodeTransaction(flag, st, step, f)

\* ---------------------------------------------------------------- state
Callers == {"c1", "c2"}

VARIABLES
    head,           \* the newest revision of the migration source file
    files,          \* the referenced SQL files: path -> text or NoFile
    adapter,        \* "deno" or "node": the IDatabase implementation in use
    inTransaction,  \* DenoDatabase.inTransaction of each caller's connection
    ledger,         \* committed rows of the migrations table
    schema,         \* committed objects created by migration scripts
    call,           \* each caller's migrateTo activation (locals and history)
    active          \* the callers that invoke operations

vars == <<head, files, adapter, inTransaction, ledger, schema, call, active>>

Store == [ledger |-> ledger, schema |-> schema]
EmptyStore == [ledger |-> {}, schema |-> {}]

\* The argument of migrateTo: "latest", an integer, or the NaN that parseInt
\* passes for a number.
Latest == [kind |-> "latest", version |-> 0]
To(v) == [kind |-> "version", version |-> v]
NotANumber == [kind |-> "nan", version |-> 0]
TargetVersions == (0 - 1)..(MaxN + 1)
Requests == {Latest} \cup { To(v) : v \in TargetVersions }

NoCall == [request |-> Latest, ok |-> FALSE, actualTarget |-> 0]

\* A caller's activation record.  pc: "idle", "loading" (awaiting
\* loadMigrations), "latest" (awaiting getLatestVersion), "resolving"
\* (awaiting resolveSql of `version`), "done" (returned), "failed" (threw);
\* for showStatus "status" (awaiting getLatestVersion), "shown" (returned),
\* "showfailed" (threw).
\* History, read by no operation: units (transaction() calls made), attempted
\* (loop iterations entered), committed (versions whose unit returned), failed
\* (the first statement that failed in the last unit), reads (what each load
\* read), start (the store when migrateTo was called), base (the store when
\* the current iteration began) and prev (the previous call, when it returned
\* without error).
IdleCall(prev) ==
    [ pc |-> "idle", request |-> Latest, migrations |-> <<>>, currentVersion |-> 0,
      actualTarget |-> 0, version |-> 0, direction |-> "none", error |-> NoError,
      units |-> 0, attempted |-> <<>>, committed |-> <<>>, failed |-> "none",
      reads |-> <<>>, start |-> EmptyStore, base |-> EmptyStore, prev |-> prev ]

\* migrations.find(m => m.version === version): the index, 0 when absent.
Find(ms, v) ==
    LET I == { i \in 1..Len(ms) : ms[i].version = v }
    IN  IF I = {} THEN 0 ELSE CHOOSE i \in I : \A j \in I : i <= j

\* A variant that notes the error and carries on where it was.
FailContinues(c, e) == [c EXCEPT !.error = e]

\* throw: the call is over.
Fail(c, e) == [c EXCEPT !.pc = "failed", !.error = e]

\* A variant that passes over a version missing from the set.
RECURSIVE migrateUpHeadSkipsMissing(_)
migrateUpHeadSkipsMissing(c) ==
    IF ~(c.version <= c.actualTarget) THEN [c EXCEPT !.pc = "done"]
    ELSE IF Find(c.migrations, c.version) = 0
    THEN migrateUpHeadSkipsMissing([c EXCEPT !.version = @ + 1])
    ELSE [c EXCEPT !.attempted = Append(@, c.version), !.pc = "resolving"]

\* A variant whose loop test is version < targetVersion.
migrateUpHeadStopsEarly(c) ==
    IF ~(c.version < c.actualTarget) THEN [c EXCEPT !.pc = "done"]
    ELSE LET d == [c EXCEPT !.attempted = Append(@, c.version)]
         IN  IF Find(c.migrations, c.version) = 0
             THEN Fail(d, Err("notfound", c.version, "none"))
             ELSE [d EXCEPT !.pc = "resolving"]

\* migrateUp from the loop test of `version` to the await of resolveSql.
migrateUpHead(c) ==
    IF ~(c.version <= c.actualTarget) THEN [c EXCEPT !.pc = "done"]
    ELSE LET d == [c EXCEPT !.attempted = Append(@, c.version)]
         IN  IF Find(c.migrations, c.version) = 0
             THEN Fail(d, Err("notfound", c.version, "none"))
             ELSE [d EXCEPT !.pc = "resolving"]

\* A variant without the test of the down script.
migrateDownHeadNoScriptTest(c) ==
    IF ~(c.version > c.actualTarget) THEN [c EXCEPT !.pc = "done"]
    ELSE LET d == [c EXCEPT !.attempted = Append(@, c.version)]
             i == Find(c.migrations, c.version)
         IN  IF i = 0 THEN Fail(d, Err("notfound", c.version, "none"))
             ELSE IF ~c.migrations[i].reversible
             THEN Fail(d, Err("notreversible", c.version, "none"))
             ELSE [d EXCEPT !.pc = "resolving"]

\* A variant testing the down script before the reversible flag.
migrateDownHeadScriptFirst(c) ==
    IF ~(c.version > c.actualTarget) THEN [c EXCEPT !.pc = "done"]
    ELSE LET d == [c EXCEPT !.attempted = Append(@, c.version)]
             i == Find(c.migrations, c.version)
         IN  IF i = 0 THEN Fail(d, Err("notfound", c.version, "none"))
             ELSE IF ~Truthy(c.migrations[i].down)
             THEN Fail(d, Err("norollback", c.version, "none"))
             ELSE IF ~c.migrations[i].reversible
             THEN Fail(d, Err("notreversible", c.version, "none"))
             ELSE [d EXCEPT !.pc = "resolving"]

\* A variant that passes over a migration that is not reversible.
RECURSIVE migrateDownHeadPassesOver(_)
migrateDownHeadPassesOver(c) ==
    IF ~(c.version > c.actualTarget) THEN [c EXCEPT !.pc = "done"]
    ELSE LET d == [c EXCEPT !.attempted = Append(@, c.version)]
             i == Find(c.migrations, c.version)
         IN  IF i = 0 THEN Fail(d, Err("notfound", c.version, "none"))
             ELSE IF ~c.migrations[i].reversible
             THEN migrateDownHeadPassesOver([c EXCEPT !.version = @ - 1])
             ELSE IF ~Truthy(c.migrations[i].down)
             THEN Fail(d, Err("norollback", c.version, "none"))
             ELSE [d EXCEPT !.pc = "resolving"]

\* migrateDown from the loop test of `version` to the await of resolveSql.
migrateDownHead(c) ==
    IF ~(c.version > c.actualTarget) THEN [c EXCEPT !.pc = "done"]
    ELSE LET d == [c EXCEPT !.attempted = Append(@, c.version)]
             i == Find(c.migrations, c.version)
         IN  IF i = 0 THEN Fail(d, Err("notfound", c.version, "none"))
             ELSE IF ~c.migrations[i].reversible
             THEN Fail(d, Err("notreversible", c.version, "none"))
             ELSE IF ~Truthy(c.migrations[i].down)
             THEN Fail(d, Err("norollback", c.version, "none"))
             ELSE [d EXCEPT !.pc = "resolving"]

StepHead(c) ==
    IF c.direction = "up" THEN migrateUpHead(c) ELSE migrateDownHead(c)

\* A variant without the early return, whose forward loop then starts at
\* currentVersion.
PlanReapplies(c) ==
    IF c.currentVersion <= c.actualTarget
    THEN migrateUpHead([c EXCEPT !.direction = "up",
                                 !.version = IF c.currentVersion = c.actualTarget
                                             THEN c.currentVersion ELSE c.currentVersion + 1])
    ELSE migrateDownHead([c EXCEPT !.direction = "down", !.version = c.currentVersion])

\* A variant rejecting a target above the highest loaded version.
PlanRejectsBeyond(c) ==
    IF c.actualTarget > Len(c.migrations)
    THEN Fail(c, Err("notfound", c.actualTarget, "none"))
    ELSE IF c.currentVersion = c.actualTarget THEN [c EXCEPT !.pc = "done"]
    ELSE IF c.currentVersion < c.actualTarget
    THEN migrateUpHead([c EXCEPT !.direction = "up", !.version = c.currentVersion + 1])
    ELSE migrateDownHead([c EXCEPT !.direction = "down", !.version = c.currentVersion])

\* A variant whose forward loop starts at currentVersion.
PlanFromCurrent(c) ==
    IF c.currentVersion = c.actualTarget THEN [c EXCEPT !.pc = "done"]
    ELSE IF c.currentVersion < c.actualTarget
    THEN migrateUpHead([c EXCEPT !.direction = "up", !.version = c.currentVersion])
    ELSE migrateDownHead([c EXCEPT !.direction = "down", !.version = c.currentVersion])

\* A variant whose forward loop passes over the version after the current one.
PlanSkipsOne(c) ==
    IF c.currentVersion = c.actualTarget THEN [c EXCEPT !.pc = "done"]
    ELSE IF c.currentVersion < c.actualTarget
    THEN migrateUpHead([c EXCEPT !.direction = "up", !.version = c.currentVersion + 2])
    ELSE migrateDownHead([c EXCEPT !.direction = "down", !.version = c.currentVersion])

\* A variant that rejects a negative target before any step.
PlanRejectsNegative(c) ==
    IF c.actualTarget < 0 THEN Fail(c, Err("range", c.actualTarget, "none"))
    ELSE IF c.currentVersion = c.actualTarget THEN [c EXCEPT !.pc = "done"]
    ELSE IF c.currentVersion < c.actualTarget
    THEN migrateUpHead([c EXCEPT !.direction = "up", !.version = c.currentVersion + 1])
    ELSE migrateDownHead([c EXCEPT !.direction = "down", !.version = c.currentVersion])

\* A variant whose forward loop starts over from version 1.
PlanRestarts(c) ==
    IF c.currentVersion = c.actualTarget THEN [c EXCEPT !.pc = "done"]
    ELSE IF c.currentVersion < c.actualTarget
    THEN migrateUpHead([c EXCEPT !.direction = "up", !.version = 1])
    ELSE migrateDownHead([c EXCEPT !.direction = "down", !.version = c.currentVersion])

\* migrateTo once actualTarget is known: the early return, else the first
\* iteration of migrateUp or migrateDown.
Plan(c) ==
    IF c.currentVersion = c.actualTarget THEN [c EXCEPT !.pc = "done"]
    ELSE IF c.currentVersion < c.actualTarget
    THEN migrateUpHead([c EXCEPT !.direction = "up", !.version = c.currentVersion + 1])
    ELSE migrateDownHead([c EXCEPT !.direction = "down", !.version = c.currentVersion])

\* ---------------------------------------------------------------- actions
Reverse(s) == [i \in 1..Len(s) |-> s[Len(s) + 1 - i]]

\* What a read of the source file may return when head is its newest
\* revision: an older revision (a prefix), head declared in reverse order,
\* head without its first migration or with it twice, an unparseable text, or
\* a read error.  The file may be rewritten between any two reads.
Revisions(h) ==
    { Source("ok", SubSeq(h, 1, j)) : j \in 0..Len(h) }
        \cup { Source("ok", Reverse(h)), Source("ok", Tail(h)),
               Source("ok", <<h[1]>> \o h), Unparseable, Unreadable }

\* The activation record of migrateTo(req) at its first await.
Entered(c, req, st) ==
    [IdleCall(c.prev) EXCEPT !.pc = "loading", !.request = req,
                             !.start = st, !.base = st]

\* migrateTo(targetVersion) is called: loadMigrations starts reading.
MigrateTo(p, req) ==
    /\ p \in active
    /\ call[p].pc = "idle"
    /\ call' = [call EXCEPT ![p] = Entered(call[p], req, Store)]
    /\ UNCHANGED <<head, files, adapter, inTransaction, ledger, schema, active>>

\* What a load read: the source, the paths that could not be read, and the
\* referenced SQL files it read.
Read(src, fs) ==
    [ source |-> src, missing |-> { q \in Paths : fs[q] = NoFile },
      opened |-> loadMigrations(src, fs).opened ]

\* loadMigrations settles on the source it read: getCurrentVersion, then
\* either the await of getLatestVersion or the plan.
Loaded(c, src, fs, st) ==
    LET r == loadMigrations(src, fs)
        c1 == [c EXCEPT !.reads = Append(@, Read(src, fs))]
        c2 == [c1 EXCEPT !.migrations = r.migrations,
                         !.currentVersion = getCurrentVersion(st.ledger),
                         !.base = st]
    IN  IF r.error # NoError THEN Fail(c1, r.error)
        ELSE IF c.request.kind = "latest" THEN [c2 EXCEPT !.pc = "latest"]
        ELSE IF c.request.kind = "nan"
        THEN \* NaN equals nothing and is below nothing: migrateDown, no iteration
             [c2 EXCEPT !.direction = "down", !.pc = "done"]
        ELSE Plan([c2 EXCEPT !.actualTarget = c.request.version])

LoadDone(p) ==
    /\ call[p].pc = "loading"
    /\ \E src \in Revisions(head) :
         call' = [call EXCEPT ![p] = Loaded(call[p], src, files, Store)]
    /\ UNCHANGED <<head, files, adapter, inTransaction, ledger, schema, active>>

\* getLatestVersion settles: actualTarget, then the plan.
Resolved(c, src, fs, st) ==
    LET r == getLatestVersion(src, fs)
        c1 == [c EXCEPT !.reads = Append(@, Read(src, fs))]
    IN  IF r.error # NoError THEN Fail(c1, r.error)
        ELSE Plan([c1 EXCEPT !.actualTarget = r.latest, !.base = st])

LatestDone(p) ==
    /\ call[p].pc = "latest"
    /\ \E src \in Revisions(head) :
         call' = [call EXCEPT ![p] = Resolved(call[p], src, files, Store)]
    /\ UNCHANGED <<head, files, adapter, inTransaction, ledger, schema, active>>

\* !upSql, !downSql: the resolved script is null or the empty string.
EmptyScript(sql) == sql = EmptySql

\* The step of `version` from the settling of resolveSql: the empty-script
\* check, the transaction, and on success the next iteration's head.
StepUnit(p, f) ==
    LET c == call[p]
        up == c.direction = "up"
        m == c.migrations[Find(c.migrations, c.version)]
        kind == IF up THEN "apply" ELSE "revert"
        r == resolveSql(IF up THEN m.up ELSE m.down, files)
        step == [sql |-> r.sql, write |-> IF up THEN "insert" ELSE "delete", row |-> Row(m)]
        t == transaction(adapter, inTransaction[p], Store, step, f)
        d == [c EXCEPT !.units = @ + 1, !.failed = t.failed, !.base = Store]
    IN  IF r.error # "none"
        THEN /\ call' = [call EXCEPT ![p] = Fail(c, Err(kind, c.version, r.error))]
             /\ UNCHANGED <<inTransaction, ledger, schema>>
        ELSE IF EmptyScript(r.sql)
        THEN /\ call' = [call EXCEPT ![p] = Fail(c, Err(kind, c.version, "empty"))]
             /\ UNCHANGED <<inTransaction, ledger, schema>>
        ELSE /\ ledger' = t.store.ledger
             /\ schema' = t.store.schema
             /\ inTransaction' = [inTransaction EXCEPT ![p] = t.flag]
             /\ call' = [call EXCEPT ![p] =
                          IF t.cause # "none" THEN Fail(d, Err(kind, c.version, t.cause))
                          ELSE StepHead([d EXCEPT !.committed = Append(@, c.version),
                                                  !.version = IF up THEN @ + 1 ELSE @ - 1,
                                                  !.base = t.store])]

Resolve(p) ==
    /\ call[p].pc = "resolving"
    /\ \E f \in Faults : StepUnit(p, f)
    /\ UNCHANGED <<head, files, adapter, active>>

\* The copy of MigrationManager under src/core/migrations, whose scripts are
\* inline texts only: an iteration of its migrateUp or migrateDown from the
\* transaction on.  There is no resolveSql and no test of the text before
\* db.transaction.  The loops are synchronous; with one caller, taking them
\* an iteration at a time reaches the same stores.
StepUnitOlder(p, f) ==
    LET c == call[p]
        up == c.direction = "up"
        m == c.migrations[Find(c.migrations, c.version)]
        kind == IF up THEN "apply" ELSE "revert"
        step == [sql |-> IF up THEN m.up.sql ELSE m.down.sql,
                 write |-> IF up THEN "insert" ELSE "delete", row |-> Row(m)]
        t == transaction(adapter, inTransaction[p], Store, step, f)
        d == [c EXCEPT !.units = @ + 1, !.failed = t.failed, !.base = Store]
    IN  /\ ledger' = t.store.ledger
        /\ schema' = t.store.schema
        /\ inTransaction' = [inTransaction EXCEPT ![p] = t.flag]
        /\ call' = [call EXCEPT ![p] =
                     IF t.cause # "none" THEN Fail(d, Err(kind, c.version, t.cause))
                     ELSE StepHead([d EXCEPT !.committed = Append(@, c.version),
                                             !.version = IF up THEN @ + 1 ELSE @ - 1,
                                             !.base = t.store])]

ResolveOlder(p) ==
    /\ call[p].pc = "resolving"
    /\ \E f \in Faults : StepUnitOlder(p, f)
    /\ UNCHANGED <<head, files, adapter, active>>

\* The caller takes the outcome; the connection and the store stay.
Returned(c) ==
    IdleCall(IF c.pc = "done"
             THEN [request |-> c.request, ok |-> TRUE, actualTarget |-> c.actualTarget]
             ELSE NoCall)

Return(p) ==
    /\ call[p].pc \in {"done", "failed"}
    /\ call' = [call EXCEPT ![p] = Returned(call[p])]
    /\ UNCHANGED <<head, files, adapter, inTransaction, ledger, schema, active>>

\* What a caller keeps of a call that threw, to call again.
Aborted(c) ==
    [ request |-> c.request, ok |-> FALSE, actualTarget |-> c.actualTarget,
      error |-> c.error, committed |-> c.committed ]

\* The caller catches the error and calls migrateTo again with the same
\* argument.
Retry(p) ==
    /\ call[p].pc = "failed"
    /\ call' = [call EXCEPT ![p] =
                 Entered(IdleCall(Aborted(call[p])), call[p].request, Store)]
    /\ UNCHANGED <<head, files, adapter, inTransaction, ledger, schema, active>>

\* A variant that records the latest version as applied.
showStatusRecords(cur, src, fs, st) ==
    LET r == getLatestVersion(src, fs)
    IN  [ error |-> r.error, current |-> cur, latest |-> r.latest,
          applied |-> Versions(st.ledger),
          store |-> IF r.error = NoError /\ r.latest \notin Versions(st.ledger) /\ r.latest > 0
                    THEN [st EXCEPT !.ledger = @ \cup {[version |-> r.latest, name |-> "status",
                                                         description |-> ""]}]
                    ELSE st ]

\* showStatus from the settling of getLatestVersion: what it prints
\* (current, latest, the applied versions) and the store it leaves.
showStatus(cur, src, fs, st) ==
    LET r == getLatestVersion(src, fs)
    IN  [ error |-> r.error, current |-> cur, latest |-> r.latest,
          applied |-> IF r.error = NoError THEN Versions(st.ledger) ELSE {},
          store |-> st ]

\* showStatus() is called: getCurrentVersion, then getLatestVersion starts
\* reading.
StatusEntered(c, st) ==
    [IdleCall(c.prev) EXCEPT !.pc = "status", !.start = st, !.base = st,
                             !.currentVersion = getCurrentVersion(st.ledger)]

ShowStatus(p) ==
    /\ p \in active
    /\ call[p].pc = "idle"
    /\ call' = [call EXCEPT ![p] = StatusEntered(call[p], Store)]
    /\ UNCHANGED <<head, files, adapter, inTransaction, ledger, schema, active>>

\* getLatestVersion settles and showStatus prints, or throws.
StatusDone(p) ==
    /\ call[p].pc = "status"
    /\ \E src \in Revisions(head) :
         LET c == call[p]
             r == showStatus(c.currentVersion, src, files, Store)
         IN  /\ call' = [call EXCEPT ![p] =
                          [c EXCEPT !.pc = IF r.error = NoError THEN "shown" ELSE "showfailed",
                                    !.error = r.error,
                                    !.actualTarget = r.latest,
                                    !.reads = Append(@, Read(src, files))]]
             /\ ledger' = r.store.ledger
             /\ schema' = r.store.schema
    /\ UNCHANGED <<head, files, adapter, inTransaction, active>>

\* The caller takes the outcome of showStatus.
StatusReturn(p) ==
    /\ call[p].pc \in {"shown", "showfailed"}
    /\ call' = [call EXCEPT ![p] = IdleCall(call[p].prev)]
    /\ UNCHANGED <<head, files, adapter, inTransaction, ledger, schema, active>>

\* A referenced SQL file is rewritten or removed.
EditFile ==
    /\ \E fs \in FileStates : fs # files /\ files' = fs
    /\ UNCHANGED <<head, adapter, inTransaction, ledger, schema, call, active>>

\* loadMigrations alone, on head as the source file.
Validate(p) ==
    /\ p \in active
    /\ call[p].pc = "idle"
    /\ LET r == loadMigrations(Source("ok", head), files)
       IN  call' = [call EXCEPT ![p] =
                     [call[p] EXCEPT !.pc = "validated", !.migrations = r.migrations,
                                     !.error = r.error,
                                     !.reads = <<Read(Source("ok", head), files)>>]]
    /\ UNCHANGED <<head, files, adapter, inTransaction, ledger, schema, active>>

\* ---------------------------------------------------------------- DenoDatabase
\* DenoDatabase.transaction statement by statement, with fn free to call
\* transaction again.  A connection's activation record: pc is "idle", "body"
\* (the innermost fn is running), "throwing" (an error is propagating to the
\* next enclosing transaction call) or "returned" (the outermost call has
\* returned or thrown).  frames: the transaction calls on the stack, each
\* nested (it took the inTransaction branch) or not.  open: the engine holds
\* a transaction of this connection; work: its uncommitted objects.
\* thrown: the error propagating ("none", "fn", "BEGIN", "COMMIT",
\* "ROLLBACK").  History: issued (the transaction statements the outermost
\* call has issued), origin (the first error thrown), writes (the objects
\* the fns wrote), start (the committed store when the outermost call began),
\* top (how the outermost call entered) and deepest (the most frames held).
TxnIdle(open, work) ==
    [ pc |-> "idle", frames |-> <<>>, open |-> open, work |-> work,
      thrown |-> "none", issued |-> <<>>, origin |-> "none", writes |-> {},
      start |-> {}, top |-> "none", deepest |-> 0 ]

\* An error leaves a transaction call: to the enclosing fn, or to the caller.
Throw(c, e) ==
    [c EXCEPT !.pc = IF c.frames = <<>> THEN "returned" ELSE "throwing",
              !.thrown = e,
              !.origin = IF @ = "none" THEN e ELSE @]

Push(c, nested) ==
    [c EXCEPT !.pc = "body",
              !.frames = Append(@, [nested |-> nested]),
              !.deepest = IF Len(c.frames) + 1 > @ THEN Len(c.frames) + 1 ELSE @]

Pop(c) == [c EXCEPT !.frames = SubSeq(@, 1, Len(@) - 1)]

\* A variant that issues BEGIN whatever the flag says.
DenoEnterAlwaysBegins(c, flag, ok) ==
    LET b == [c EXCEPT !.issued = Append(@, "BEGIN")]
    IN  IF ok /\ ~c.open
        THEN [call |-> Push([b EXCEPT !.open = TRUE, !.work = {}], FALSE), flag |-> TRUE]
        ELSE [call |-> Throw(b, "BEGIN"), flag |-> TRUE]

\* transaction(fn) up to the call of fn (lines 58-66): the re-entrant branch,
\* or the flag and BEGIN, which throws when the engine refuses it (ok false)
\* or already holds a transaction.  [call, flag].
DenoEnter(c, flag, ok) ==
    IF flag THEN [call |-> Push(c, TRUE), flag |-> TRUE]
    ELSE LET b == [c EXCEPT !.issued = Append(@, "BEGIN")]
         IN  IF ok /\ ~c.open
             THEN [call |-> Push([b EXCEPT !.open = TRUE, !.work = {}], FALSE), flag |-> TRUE]
             ELSE [call |-> Throw(b, "BEGIN"), flag |-> TRUE]

\* The catch block (lines 71-75) with error e: ROLLBACK, which throws when
\* the engine holds no transaction; then the flag reset and the rethrow.
DenoCatch(c, e) ==
    LET b == Pop([c EXCEPT !.issued = Append(@, "ROLLBACK")])
    IN  IF c.open
        THEN [call |-> Throw([b EXCEPT !.open = FALSE, !.work = {}], e), flag |-> FALSE]
        ELSE [call |-> Throw(b, "ROLLBACK"), flag |-> TRUE]

\* fn has returned (lines 60, 67-70).  mode is what the engine does with
\* COMMIT: "ok", "busy" (refused, the transaction stays) or "lost" (refused,
\* the transaction rolled back).  [call, flag, committed].
DenoExit(c, flag, mode) ==
    LET rest == Pop(c)
        back == [rest EXCEPT !.pc = IF rest.frames = <<>> THEN "returned" ELSE "body"]
        b == [c EXCEPT !.issued = Append(@, "COMMIT")]
    IN  IF Last(c.frames).nested
        THEN [call |-> back, flag |-> flag, committed |-> {}]
        ELSE IF c.open /\ mode = "ok"
        THEN [call |-> [back EXCEPT !.issued = Append(@, "COMMIT"), !.open = FALSE, !.work = {}],
              flag |-> FALSE, committed |-> c.work]
        ELSE LET held == IF mode = "lost" THEN [b EXCEPT !.open = FALSE, !.work = {}] ELSE b
                 r == DenoCatch([held EXCEPT !.origin = IF @ = "none" THEN "COMMIT" ELSE @], "COMMIT")
             IN  [call |-> r.call, flag |-> r.flag, committed |-> {}]

\* transaction(fn) is called, by the caller or by the running fn.
TxnEnter(p) ==
    /\ p \in active
    /\ call[p].pc \in {"idle", "body"}
    /\ Len(call[p].frames) < MaxDepth
    /\ \E ok \in BOOLEAN :
         LET c == IF call[p].pc = "idle"
                  THEN [call[p] EXCEPT !.start = schema,
                                       !.top = IF inTransaction[p] THEN "nested" ELSE "real"]
                  ELSE call[p]
             r == DenoEnter(c, inTransaction[p], ok)
         IN  /\ call' = [call EXCEPT ![p] = r.call]
             /\ inTransaction' = [inTransaction EXCEPT ![p] = r.flag]
    /\ UNCHANGED <<head, files, adapter, ledger, schema, active>>

\* The running fn executes a statement that writes: into the open
\* transaction, or autocommitted when the engine holds none.
TxnWrite(p) ==
    /\ call[p].pc = "body"
    /\ Len(call[p].frames) \notin call[p].writes
    /\ LET c == call[p]
           o == Len(c.frames)
       IN  /\ call' = [call EXCEPT ![p] =
                        [c EXCEPT !.writes = @ \cup {o},
                                  !.work = IF c.open THEN Exec(Create(o), @) ELSE @]]
           /\ schema' = IF c.open THEN schema ELSE Exec(Create(o), schema)
    /\ UNCHANGED <<head, files, adapter, inTransaction, ledger, active>>

\* The running fn returns.
TxnFnReturn(p) ==
    /\ call[p].pc = "body"
    /\ \E mode \in {"ok", "busy", "lost"} :
         LET r == DenoExit(call[p], inTransaction[p], mode)
         IN  /\ call' = [call EXCEPT ![p] = r.call]
             /\ inTransaction' = [inTransaction EXCEPT ![p] = r.flag]
             /\ schema' = schema \cup r.committed
    /\ UNCHANGED <<head, files, adapter, ledger, active>>

\* A statement of the running fn fails and fn throws; auto: the engine
\* rolled the transaction back on that failure.
TxnFnThrow(p) ==
    /\ call[p].pc = "body"
    /\ \E auto \in BOOLEAN :
         call' = [call EXCEPT ![p] =
                   [call[p] EXCEPT !.pc = "throwing", !.thrown = "fn",
                                   !.origin = IF @ = "none" THEN "fn" ELSE @,
                                   !.open = IF auto THEN FALSE ELSE @,
                                   !.work = IF auto THEN {} ELSE @]]
    /\ UNCHANGED <<head, files, adapter, inTransaction, ledger, schema, active>>

\* The error reaches the next enclosing transaction call: the re-entrant
\* branch lets it through, the other one catches it.
TxnUnwind(p) ==
    /\ call[p].pc = "throwing"
    /\ LET c == call[p]
           r == IF Last(c.frames).nested
                THEN [call |-> Throw(Pop(c), c.thrown), flag |-> inTransaction[p]]
                ELSE DenoCatch(c, c.thrown)
       IN  /\ call' = [call EXCEPT ![p] = r.call]
           /\ inTransaction' = [inTransaction EXCEPT ![p] = r.flag]
    /\ UNCHANGED <<head, files, adapter, ledger, schema, active>>

\* The caller takes the outcome; the connection stays as it is.
TxnDone(p) ==
    /\ call[p].pc = "returned"
    /\ call' = [call EXCEPT ![p] = TxnIdle(call[p].open, call[p].work)]
    /\ UNCHANGED <<head, files, adapter, inTransaction, ledger, schema, active>>

\* ---------------------------------------------------------------- command line
\* A string of the command line or of the environment, as parseInt sees it:
\* an optional sign, the leading decimal digits, and what follows them.
Text(sign, digits, rest) == [sign |-> sign, digits |-> digits, rest |-> rest]
Word(w) == Text(1, <<>>, w)
Num(n) == Text(IF n < 0 THEN 0 - 1 ELSE 1, <<IF n < 0 THEN 0 - n ELSE n>>, "")
\* An environment variable that is not set.
Unset == Text(0, <<>>, "undefined")

RECURSIVE Decimal(_)
Decimal(ds) == IF ds = <<>> THEN 0 ELSE 10 * Decimal(SubSeq(ds, 1, Len(ds) - 1)) + Last(ds)

\* parseInt(text): the leading digits, whatever follows them; NaN without any.
parseInt(t) ==
    IF t.digits = <<>> THEN NotANumber ELSE To(t.sign * Decimal(t.digits))

\* A string as a condition: set and not empty.
TextTruthy(t) == t # Unset /\ t # Word("")

\* A variant that never consults the override.
targetVersionLatest(env) == Latest

\* The target of the no-argument form.
targetVersion(env) ==
    IF TextTruthy(env) /\ env # Word("latest") THEN parseInt(env) ELSE Latest

NoOutput == [text |-> "", error |-> NoError]
Output(t, e) == [text |-> t, error |-> e]

\* main up to its first await or its exit.  trace lists what the process
\* did to the store and the manager; op is the manager call it awaits.
\* openOk: createDatabase and the constructor of MigrationManager succeed;
\* when they throw, outside the try, the runtime ends the process on the
\* unhandled rejection with code 1.
main(args, env, openOk) ==
    LET opened == <<"open", "ensureMigrationsTable">>
        exit(code, tr, out) == [ exit |-> TRUE, code |-> code, trace |-> tr,
                                 stderr |-> out, op |-> "none", request |-> Latest ]
        await(op, req) == [ exit |-> FALSE, code |-> 0, trace |-> Append(opened, op),
                            stderr |-> NoOutput, op |-> op, request |-> req ]
    IN  IF env = Word("skip") THEN exit(0, <<>>, NoOutput)
        ELSE IF ~openOk THEN exit(1, <<"open">>, Output("Uncaught", NoError))
        ELSE IF args = <<>> \/ args[1] = Word("latest")
        THEN await("migrateTo", targetVersion(env))
        ELSE IF args[1] = Word("status") THEN await("showStatus", Latest)
        ELSE IF args[1] = Word("--to") /\ Len(args) > 1
        THEN IF parseInt(args[2]) = NotANumber
             THEN exit(1, opened, Output("Invalid version number", NoError))
             ELSE await("migrateTo", parseInt(args[2]))
        ELSE exit(1, opened, Output("Usage:", NoError))

\* What main sees of the settled call: returned or threw, and the error.
Outcome(c) == [pc |-> c.pc, error |-> c.error]

\* A variant whose catch block leaves the exit code to the end of main.
mainSettledExitsZero(cli, c) ==
    IF c.pc \in {"done", "shown"}
    THEN [cli EXCEPT !.pc = "exited", !.code = 0, !.outcome = Outcome(c),
                     !.trace = Append(@, "close")]
    ELSE [cli EXCEPT !.pc = "exited", !.code = 0, !.outcome = Outcome(c),
                     !.trace = Append(@, "close"),
                     !.stderr = Output("Migration failed:", c.error)]

\* main from the settling of the awaited call: close and exit 0, or the
\* catch block.
mainSettled(cli, c) ==
    IF c.pc \in {"done", "shown"}
    THEN [cli EXCEPT !.pc = "exited", !.code = 0, !.outcome = Outcome(c),
                     !.trace = Append(@, "close")]
    ELSE [cli EXCEPT !.pc = "exited", !.code = 1, !.outcome = Outcome(c),
                     !.trace = Append(@, "close"),
                     !.stderr = Output("Migration failed:", c.error)]

\* The process and the manager it creates.  The process's record is kept in
\* the slot of the second caller, who makes no call of its own here.
Cli == "c2"
Mgr == "c1"

NoProcess ==
    [ pc |-> "none", args |-> <<>>, env |-> Unset, code |-> 0, trace |-> <<>>,
      stderr |-> NoOutput, op |-> "none", request |-> Latest,
      outcome |-> Outcome(IdleCall(NoCall)), start |-> EmptyStore ]

Arguments ==
    { <<>>, <<Word("latest")>>, <<Word("status")>>, <<Word("--to")>>, <<Word("help")>> }
        \cup { <<Word("--to"), t>> :
                  t \in { Num(0), Num(MaxN), Text(1, <<1>>, "x"), Word("abc") } }
Overrides == { Unset, Word(""), Word("skip"), Word("latest"), Num(1), Word("abc") }

\* The tool is run: a new process, a new connection.
CliStart(args, env, openOk) ==
    /\ call[Cli].pc \in {"none", "exited"}
    /\ LET m == main(args, env, openOk)
           cli == [ pc |-> IF m.exit THEN "exited" ELSE "awaiting",
                    args |-> args, env |-> env, code |-> m.code, trace |-> m.trace,
                    stderr |-> m.stderr, op |-> m.op, request |-> m.request,
                    outcome |-> Outcome(IdleCall(NoCall)), start |-> Store ]
       IN  /\ call' = [call EXCEPT
                         ![Cli] = cli,
                         ![Mgr] = IF m.op = "migrateTo" THEN Entered(@, m.request, Store)
                                  ELSE IF m.op = "showStatus" THEN StatusEntered(@, Store)
                                  ELSE @]
           /\ inTransaction' = IF "open" \in Range(m.trace)
                                THEN [inTransaction EXCEPT ![Mgr] = FALSE]
                                ELSE inTransaction
    /\ UNCHANGED <<head, files, adapter, ledger, schema, active>>

\* The awaited call settled: main closes the store and exits.
CliSettle ==
    /\ call[Cli].pc = "awaiting"
    /\ call[Mgr].pc \in {"done", "failed", "shown", "showfailed"}
    /\ call' = [call EXCEPT
                  ![Cli] = mainSettled(@, call[Mgr]),
                  ![Mgr] = IF @.pc \in {"done", "failed"} THEN Returned(@)
                           ELSE IdleCall(@.prev)]
    /\ UNCHANGED <<head, files, adapter, inTransaction, ledger, schema, active>>

\* ---------------------------------------------------------------- specification
RefersToFiles(h) == \E i \in 1..Len(h) : h[i].up.kind = "file"

\* Heads: versions 1..MaxN in order, at most one migration not "plain".
Heads ==
    { [i \in 1..MaxN |-> Migration(i, IF i = s THEN k ELSE "plain")] :
        s \in 1..MaxN, k \in Kinds }

\* Any list of at most MaxLen migrations with versions 0..MaxLen.
RECURSIVE ListsUpTo(_, _)
ListsUpTo(S, n) ==
    IF n = 0 THEN {<<>>}
    ELSE LET shorter == ListsUpTo(S, n - 1)
         IN  shorter \cup { Append(l, x) : l \in { k \in shorter : Len(k) = n - 1 }, x \in S }

ValidatorInputs ==
    ListsUpTo({ Migration(v, k) : v \in 0..MaxLen, k \in {"plain", "file"} }, MaxLen)

InitCommon ==
    /\ inTransaction = [p \in Callers |-> FALSE]
    /\ ledger = {}
    /\ schema = {}
    /\ call = [p \in Callers |-> IdleCall(NoCall)]
    /\ active = {"c1"}

\* One caller, scripts inline.
Init ==
    /\ head \in { h \in Heads : ~RefersToFiles(h) }
    /\ files = AllPresent
    /\ adapter \in {"deno", "node"}
    /\ InitCommon

\* One caller, one migration of the source refers to SQL files.
InitFiles ==
    /\ head \in { h \in Heads : RefersToFiles(h) }
    /\ files = AllPresent
    /\ adapter = "node"
    /\ InitCommon

\* One caller, a source of MaxL plain migrations, NodeDatabase.
InitLatest ==
    /\ head = [i \in 1..MaxL |-> Migration(i, "plain")]
    /\ files = AllPresent
    /\ adapter = "node"
    /\ InitCommon

\* Two callers, each with a connection of its own to the same database;
\* the one migration's script is not idempotent.
InitTwo ==
    /\ head = <<Migration(1, "seed")>>
    /\ files = AllPresent
    /\ adapter \in {"deno", "node"}
    /\ inTransaction = [p \in Callers |-> FALSE]
    /\ ledger = {}
    /\ schema = {}
    /\ call = [p \in Callers |-> IdleCall(NoCall)]
    /\ active = Callers

\* One DenoDatabase connection on an empty database.
InitDeno ==
    /\ head = <<>>
    /\ files = AllPresent
    /\ adapter = "deno"
    /\ inTransaction = [p \in Callers |-> FALSE]
    /\ ledger = {}
    /\ schema = {}
    /\ call = [p \in Callers |-> TxnIdle(FALSE, {})]
    /\ active = {"c1"}

\* The loader alone on any list.
InitValidate ==
    /\ head \in ValidatorInputs
    /\ files \in FileStates
    /\ adapter = "node"
    /\ InitCommon

Next ==
    \/ \E p \in Callers, req \in Requests : MigrateTo(p, req)
    \/ \E p \in Callers : LoadDone(p)
    \/ \E p \in Callers : LatestDone(p)
    \/ \E p \in Callers : Resolve(p)
    \/ \E p \in Callers : Return(p)
    \/ \E p \in Callers : ShowStatus(p)
    \/ \E p \in Callers : StatusDone(p)
    \/ \E p \in Callers : StatusReturn(p)

NextFiles ==
    \/ Next
    \/ EditFile

NextValidate == \E p \in Callers : Validate(p)

\* The requests of the two callers: up to the one migration.
TwoRequests == {To(1)}

NextTwo ==
    \/ \E p \in Callers, req \in TwoRequests : MigrateTo(p, req)
    \/ \E p \in Callers : LoadDone(p)
    \/ \E p \in Callers : Resolve(p)
    \/ \E p \in Callers : Return(p)

Spec == Init /\ [][Next]_vars

SpecFiles == InitFiles /\ [][NextFiles]_vars

SpecValidate == InitValidate /\ [][NextValidate]_vars

SpecLatest == InitLatest /\ [][Next]_vars

SpecTwo == InitTwo /\ [][NextTwo]_vars

NextDeno ==
    \/ \E p \in Callers : TxnEnter(p)
    \/ \E p \in Callers : TxnWrite(p)
    \/ \E p \in Callers : TxnFnReturn(p)
    \/ \E p \in Callers : TxnFnThrow(p)
    \/ \E p \in Callers : TxnUnwind(p)
    \/ \E p \in Callers : TxnDone(p)

SpecDeno == InitDeno /\ [][NextDeno]_vars

\* One caller who may call again after a failure; plain and seed scripts.
InitRetry ==
    /\ head \in { h \in Heads : \A i \in 1..Len(h) : h[i].name \in {"plain", "seed"} }
    /\ files = AllPresent
    /\ adapter \in {"deno", "node"}
    /\ InitCommon

NextRetry ==
    \/ \E p \in Callers, req \in Requests : MigrateTo(p, req)
    \/ \E p \in Callers : LoadDone(p)
    \/ \E p \in Callers : LatestDone(p)
    \/ \E p \in Callers : Resolve(p)
    \/ \E p \in Callers : Return(p)
    \/ \E p \in Callers : Retry(p)

SpecRetry == InitRetry /\ [][NextRetry]_vars

\* Two callers on a database at version 1, each with a connection of its own
\* (NodeDatabase): one asks for the newest version, the other for version 0.
InitRace ==
    /\ head = [i \in 1..MaxN |-> Migration(i, "plain")]
    /\ files = AllPresent
    /\ adapter = "node"
    /\ inTransaction = [p \in Callers |-> FALSE]
    /\ ledger = {Row(head[1])}
    /\ schema = Exec(head[1].up.sql, {})
    /\ call = [p \in Callers |-> IdleCall(NoCall)]
    /\ active = Callers

RaceRequest(p) == IF p = "c1" THEN To(MaxN) ELSE To(0)

\* loadMigrations settles on a source file that nobody rewrites.
LoadHead(p) ==
    /\ call[p].pc = "loading"
    /\ call' = [call EXCEPT ![p] = Loaded(call[p], Source("ok", head), files, Store)]
    /\ UNCHANGED <<head, files, adapter, inTransaction, ledger, schema, active>>

NextRace ==
    \/ \E p \in Callers : MigrateTo(p, RaceRequest(p))
    \/ \E p \in Callers : LoadHead(p)
    \/ \E p \in Callers : Resolve(p)
    \/ \E p \in Callers : Return(p)

SpecRace == InitRace /\ [][NextRace]_vars

\* One caller of the copy under src/core/migrations, NodeDatabase.
InitOlder ==
    /\ head \in { h \in Heads : ~RefersToFiles(h) }
    /\ files = AllPresent
    /\ adapter = "node"
    /\ InitCommon

NextOlder ==
    \/ \E p \in Callers, req \in Requests : MigrateTo(p, req)
    \/ \E p \in Callers : LoadDone(p)
    \/ \E p \in Callers : LatestDone(p)
    \/ \E p \in Callers : ResolveOlder(p)
    \/ \E p \in Callers : Return(p)

SpecOlder == InitOlder /\ [][NextOlder]_vars

\* The command-line tool, run again and again on one database.
InitCli ==
    /\ head = [i \in 1..MaxN |-> Migration(i, "plain")]
    /\ files = AllPresent
    /\ adapter \in {"deno", "node"}
    /\ inTransaction = [p \in Callers |-> FALSE]
    /\ ledger = {}
    /\ schema = {}
    /\ call = [p \in Callers |-> IF p = Cli THEN NoProcess ELSE IdleCall(NoCall)]
    /\ active = {Mgr}

NextCli ==
    \/ \E args \in Arguments, env \in Overrides, openOk \in BOOLEAN :
          CliStart(args, env, openOk)
    \/ LoadDone(Mgr)
    \/ LatestDone(Mgr)
    \/ Resolve(Mgr)
    \/ StatusDone(Mgr)
    \/ CliSettle

SpecCli == InitCli /\ [][NextCli]_vars

\* ---------------------------------------------------------------- properties
Abs(n) == IF n < 0 THEN 0 - n ELSE n

\* The list is in ascending version order as declared.
Ascending(h) == \A i, j \in 1..Len(h) : i < j => h[i].version <= h[j].version
\* The versions are exactly 1, 2, ..., N in list order.
Dense(h) == \A i \in 1..Len(h) : h[i].version = i
\* The k-th smallest version of a list, duplicates counted.
Kth(h, k) ==
    CHOOSE v \in { h[i].version : i \in 1..Len(h) } :
        /\ Cardinality({ i \in 1..Len(h) : h[i].version < v }) < k
        /\ k <= Cardinality({ i \in 1..Len(h) : h[i].version <= v })
\* Sorted, the versions are 1, 2, ..., N.
DenseSorted(h) == \A k \in 1..Len(h) : Kth(h, k) = k
\* The first position of the sorted list whose version is not the position.
FirstGap(h) ==
    CHOOSE k \in 1..Len(h) : Kth(h, k) # k /\ \A j \in 1..(k - 1) : Kth(h, j) = j
\* A load read a source that parses, is dense once sorted, and whose every
\* up and down file reference could be read.
ValidRead(r) ==
    /\ r.source.status = "ok"
    /\ DenseSorted(r.source.migrations)
    /\ \A i \in 1..Len(r.source.migrations) :
         LET m == r.source.migrations[i]
         IN  /\ m.up.kind = "file" => m.up.file \notin r.missing
             /\ m.down.kind = "file" => m.down.file \notin r.missing
\* The call has got past its first load.
Running(c) == c.pc \in {"latest", "resolving", "done", "failed"}

\* C1: a forward step whose up SQL or ledger insert fails inside the step's
\* transaction leaves the store as it was before the step (no effect of the
\* SQL, no ledger row for the version), and the error of migrateTo names the
\* version and carries the statement's failure as its cause.
C1_ForwardStepAtomic ==
    \A p \in Callers :
        LET c == call[p]
        IN  (c.pc = "failed" /\ c.error.kind = "apply" /\ c.failed \in {"sql", "insert"})
                => /\ Store = c.base
                   /\ c.version \notin Versions(ledger)
                   /\ c.error.version = c.version
                   /\ c.error.cause = c.failed

\* C2: when a call fails at some step, the steps it completed earlier stay
\* committed, the failing step leaves the store as it found it, and
\* getCurrentVersion is the failing version - 1 (forward) or the failing
\* version (backward).
C2_PartialProgress ==
    \A p \in Callers :
        LET c == call[p]
            up == c.direction = "up"
        IN  (c.pc = "failed" /\ c.direction # "none")
                => /\ \A v \in Range(c.committed) : (v \in Versions(ledger)) <=> up
                   /\ Store = c.base
                   /\ c.error.version = c.version
                   /\ getCurrentVersion(ledger) = IF up THEN c.version - 1 ELSE c.version

\* The version "latest" stands for: the largest of the list the last load read.
LatestRead(c) ==
    LET h == Last(c.reads).source.migrations
    IN  IF h = <<>> THEN 0
        ELSE CHOOSE v \in { h[i].version : i \in 1..Len(h) } :
                 \A i \in 1..Len(h) : h[i].version <= v

\* C3: when migrateTo returns without error, getCurrentVersion equals
\* actualTarget, which is the requested integer or, for "latest", the largest
\* version of the set.
C3_SuccessReachesTarget ==
    \A p \in Callers :
        LET c == call[p]
        IN  c.pc = "done"
                => /\ getCurrentVersion(ledger) = c.actualTarget
                   /\ c.request.kind = "version" => c.actualTarget = c.request.version
                   /\ c.request.kind = "latest" => c.actualTarget = LatestRead(c)

C3_Witness ==
    \E p \in Callers :
        /\ call[p].pc = "done"
        /\ call[p].request = Latest
        /\ Len(call[p].committed) = MaxN
        /\ getCurrentVersion(ledger) = MaxN

\* C4: a forward call from current c to target t attempts c+1, c+2, ... in
\* ascending order and a backward one c, c-1, ... in descending order, up to t
\* (forward) or t+1 (backward) when it returns; no version is skipped or
\* reordered, and each committed version had a transaction of its own that
\* changed exactly its ledger row.
C4_MonotonicOrder ==
    \A p \in Callers :
        LET c == call[p]
            up == c.direction = "up"
            n == Len(c.attempted)
            k == Len(c.committed)
        IN  /\ c.direction = "none" => n = 0 /\ c.units = 0
            /\ c.direction # "none"
                 => /\ n >= 1
                    /\ n <= Abs(c.actualTarget - c.currentVersion)
                    /\ \A i \in 1..n :
                         c.attempted[i] = IF up THEN c.currentVersion + i
                                          ELSE c.currentVersion - i + 1
                    /\ c.pc = "done" => n = Abs(c.actualTarget - c.currentVersion) /\ k = n
                    /\ c.pc = "resolving" => c.version = c.attempted[n] /\ k = n - 1
                    /\ k <= n
                    /\ c.committed = SubSeq(c.attempted, 1, k)
                    /\ c.units \in {k, k + 1}
                    /\ c.units <= n
                    /\ Versions(ledger) = IF up THEN Versions(c.start.ledger) \cup Range(c.committed)
                                          ELSE Versions(c.start.ledger) \ Range(c.committed)

C4_Witness ==
    \E p \in Callers :
        /\ call[p].pc = "done"
        /\ call[p].direction = "down"
        /\ call[p].attempted = [i \in 1..MaxN |-> MaxN + 1 - i]
        /\ call[p].units = MaxN

\* C5: a call fails with a load error exactly when one of its loads read a
\* source that is unreadable, unparseable, not dense, or refers through any
\* up or down of any migration to a file that could not be read; such a call
\* opened no transaction, entered no step and left the store as it found it.
C5_LoadFailureTouchesNothing ==
    \A p \in Callers :
        LET c == call[p]
        IN  Running(c)
                => /\ (c.error.kind = "load") <=> (\E i \in 1..Len(c.reads) : ~ValidRead(c.reads[i]))
                   /\ c.error.kind = "load"
                        => /\ c.pc = "failed"
                           /\ c.units = 0
                           /\ c.attempted = <<>>
                           /\ Store = c.start

C5_Witness ==
    \E p \in Callers :
        /\ call[p].pc = "failed"
        /\ call[p].error = Err("load", 1, "downfile")
        /\ call[p].prev.ok
        /\ ledger # {}
        /\ Store = call[p].start

\* C6: a call repeating the request of the call that has just returned
\* without error (for "latest": resolving to the same version) opens no
\* transaction, enters no step, leaves the store as the first call left it,
\* and returns without error unless its load fails.
C6_Idempotent ==
    \A p \in Callers :
        LET c == call[p]
        IN  ( /\ c.pc \in {"resolving", "done", "failed"}
              /\ c.prev.ok
              /\ c.prev.request = c.request
              /\ (c.request = Latest /\ c.error.kind # "load")
                    => c.actualTarget = c.prev.actualTarget )
                => /\ c.units = 0
                   /\ c.attempted = <<>>
                   /\ Store = c.start
                   /\ c.error.kind # "load" => c.pc = "done"

C6_Witness ==
    \E p \in Callers :
        /\ call[p].pc = "done"
        /\ call[p].prev = [request |-> To(MaxN), ok |-> TRUE, actualTarget |-> MaxN]
        /\ call[p].request = To(MaxN)
        /\ Cardinality(ledger) = MaxN
        /\ call[p].units = 0

C8_ValidationIffDense ==
    \A p \in Callers :
        LET c == call[p]
        IN  (c.pc = "validated" /\ Ascending(head))
                => /\ (c.error.cause = "sequence") <=> ~Dense(head)
                   /\ (\A q \in Paths : files[q] # NoFile)
                        => /\ (c.error = NoError) <=> Dense(head)
                           /\ c.error = NoError => c.migrations = head

C8_Witness ==
    \E p \in Callers :
        /\ call[p].pc = "validated"
        /\ Len(head) = MaxLen
        /\ Dense(head)
        /\ call[p].error = NoError

\* C9: when the versions, sorted, are not 1, 2, ..., N, the load fails with
\* the sequence error of the smallest position of the sorted list whose
\* version is not the position, citing that position as the expected version
\* and the version found there, whatever the declaration order.
C9_FirstViolationReported ==
    \A p \in Callers :
        LET c == call[p]
        IN  (c.pc = "validated" /\ ~DenseSorted(head))
                => c.error = SeqErr(FirstGap(head), Kth(head, FirstGap(head)))

C9_Witness ==
    \E p \in Callers :
        /\ call[p].pc = "validated"
        /\ Len(head) = 3
        /\ head[1].version = 2 /\ head[2].version = 1 /\ head[3].version = 1
        /\ call[p].error = SeqErr(2, 1)

\* C10: a backward step through a migration with reversible = false fails
\* with the not-reversible error, down script or not, without a transaction
\* having been opened for it; the ledger still lists the version, and the
\* higher versions reverted earlier in the call stay reverted.
C10_IrreversibleStops ==
    \A p \in Callers :
        LET c == call[p]
            i == Find(c.migrations, Last(c.attempted))
        IN  ( /\ c.direction = "down"
              /\ i # 0
              /\ ~c.migrations[i].reversible )
                => /\ c.pc = "failed"
                   /\ c.error = Err("notreversible", Last(c.attempted), "none")
                   /\ c.units = Len(c.committed)
                   /\ c.committed = SubSeq(c.attempted, 1, Len(c.attempted) - 1)
                   /\ Last(c.attempted) \in Versions(ledger)
                   /\ \A v \in Range(c.committed) : v \notin Versions(ledger)

C10_Witness ==
    \E p \in Callers :
        /\ call[p].pc = "failed"
        /\ call[p].error = Err("notreversible", 1, "none")
        /\ call[p].committed = [i \in 1..(MaxN - 1) |-> MaxN + 1 - i]
        /\ Truthy(head[1].down)
        /\ 1 \in Versions(ledger)

\* C11: a backward step through a reversible migration whose down script is
\* null or the empty string fails with the no-rollback-script error without
\* a transaction having been opened for it; the ledger keeps the row of that
\* version and of every lower version.
C11_NoRollbackScriptStops ==
    \A p \in Callers :
        LET c == call[p]
            v == Last(c.attempted)
            i == Find(c.migrations, v)
        IN  ( /\ c.direction = "down"
              /\ i # 0
              /\ c.migrations[i].reversible
              /\ ~Truthy(c.migrations[i].down) )
                => /\ c.pc = "failed"
                   /\ c.error = Err("norollback", v, "none")
                   /\ c.units = Len(c.committed)
                   /\ c.committed = SubSeq(c.attempted, 1, Len(c.attempted) - 1)
                   /\ \A r \in c.start.ledger : r.version <= v => r \in ledger

C11_Witness ==
    \E p \in Callers :
        /\ call[p].pc = "failed"
        /\ call[p].error = Err("norollback", 1, "none")
        /\ head[1].down = Inline(EmptySql)
        /\ call[p].committed = [i \in 1..(MaxN - 1) |-> MaxN + 1 - i]
        /\ Versions(ledger) = {1}

\* The call has its plan: the load and the target resolution succeeded.
Planned(c) == c.pc \in {"resolving", "done", "failed"} /\ c.error.kind # "load"

\* C12: an integer target T above the highest loaded version N, with current
\* c <= N, is not rejected up front: the call steps forward from c + 1, never
\* returns without error, and once every step c+1..N has committed it fails
\* with the step-not-found error naming N + 1, getCurrentVersion() = N.
C12_BeyondRange ==
    \A p \in Callers :
        LET c == call[p]
            N == Len(c.migrations)
        IN  ( /\ Planned(c)
              /\ c.request.kind = "version"
              /\ c.currentVersion <= N
              /\ N < c.request.version )
                => /\ c.direction = "up"
                   /\ c.attempted[1] = c.currentVersion + 1
                   /\ c.pc # "done"
                   /\ (c.pc = "failed" /\ Len(c.committed) = N - c.currentVersion)
                        => c.error = Err("notfound", N + 1, "none")
                   /\ (c.pc = "failed" /\ c.error.kind = "notfound")
                        => /\ c.error.version = N + 1
                           /\ c.committed = [i \in 1..(N - c.currentVersion) |-> c.currentVersion + i]
                           /\ c.units = N - c.currentVersion
                           /\ getCurrentVersion(ledger) = N

C12_Witness ==
    \E p \in Callers :
        /\ call[p].pc = "failed"
        /\ call[p].request = To(MaxN + 1)
        /\ call[p].currentVersion = 0
        /\ call[p].error = Err("notfound", MaxN + 1, "none")
        /\ call[p].committed = [i \in 1..MaxN |-> i]
        /\ getCurrentVersion(ledger) = MaxN

C14_SetFixedWithinCall ==
    \A p \in Callers :
        LET c == call[p]
        IN  (Planned(c) /\ c.request = Latest)
                => /\ \A i \in 1..Len(c.reads) :
                        Range(c.reads[i].source.migrations) = Range(c.migrations)
                   /\ c.actualTarget = Len(c.migrations)

\* v is the highest version of the rows, 0 for no rows.
IsCurrent(rows, v) ==
    IF rows = {} THEN v = 0
    ELSE v \in Versions(rows) /\ \A r \in rows : r.version <= v

\* C15: a call whose resolved target is the version the ledger is at returns
\* without error at once: no step is entered, no transaction is opened and
\* the store is unchanged.
C15_EarlyReturn ==
    \A p \in Callers :
        LET c == call[p]
        IN  (Planned(c) /\ IsCurrent(c.start.ledger, c.actualTarget))
                => /\ c.pc = "done"
                   /\ c.direction = "none"
                   /\ c.attempted = <<>>
                   /\ c.units = 0
                   /\ Store = c.start

C15_Witness ==
    \E p \in Callers :
        /\ call[p].pc = "done"
        /\ call[p].request = Latest
        /\ call[p].actualTarget = MaxN
        /\ IsCurrent(call[p].start.ledger, MaxN)
        /\ call[p].units = 0

\* C16: for "latest", actualTarget is the highest version of the set
\* getLatestVersion validated, 0 when that set is empty; with the empty set
\* and an empty ledger the call returns without error having done nothing,
\* and a call that returns without error on a set of N migrations leaves the
\* ledger at version N.
C16_LatestIsMaximum ==
    \A p \in Callers :
        LET c == call[p]
            set == Last(c.reads).source.migrations
        IN  (Planned(c) /\ c.request = Latest)
                => /\ IF set = <<>> THEN c.actualTarget = 0
                      ELSE /\ \E i \in 1..Len(set) : set[i].version = c.actualTarget
                           /\ \A i \in 1..Len(set) : set[i].version <= c.actualTarget
                   /\ (set = <<>> /\ c.start.ledger = {})
                        => c.pc = "done" /\ c.units = 0 /\ Store = c.start
                   /\ c.pc = "done" => IsCurrent(ledger, Len(set))

C16_Witness ==
    \E p \in Callers :
        /\ call[p].pc = "done"
        /\ call[p].request = Latest
        /\ Last(call[p].reads).source.migrations = <<>>
        /\ call[p].start.ledger = {}
        /\ call[p].actualTarget = 0

\* C17: a forward step for a version another caller has recorded in the
\* meantime fails on the ledger insert: the ledger is as it was before the
\* step (the existing row is not overwritten), the effects of the step's SQL
\* are rolled back, and the call fails naming the version.
C17_DuplicateInsertFails ==
    \A p \in Callers :
        LET c == call[p]
        IN  ( /\ c.pc = "failed"
              /\ c.direction = "up"
              /\ c.failed = "insert"
              /\ c.version \in Versions(c.base.ledger) )
                => /\ ledger = c.base.ledger
                   /\ schema = c.base.schema
                   /\ c.error.kind = "apply"
                   /\ c.error.version = c.version

\* The objects the fns of a transaction call wrote.
Written(c) == { [obj |-> o, tag |-> "inline"] : o \in c.writes }

\* C18: a transaction call that is not nested issues BEGIN once; when fn
\* returns it issues COMMIT and returns with fn's writes committed; when fn
\* throws it issues ROLLBACK and throws fn's error with nothing committed;
\* either way the engine holds no transaction when the call is over.
C18_UnitClosed ==
    \A p \in Callers :
        LET c == call[p]
        IN  (c.pc = "returned" /\ c.top = "real")
                => /\ c.issued[1] = "BEGIN"
                   /\ Cardinality({ i \in 1..Len(c.issued) : c.issued[i] = "BEGIN" }) = 1
                   /\ ~c.open
                   /\ c.origin = "none"
                        => /\ c.issued = <<"BEGIN", "COMMIT">>
                           /\ c.thrown = "none"
                           /\ schema = c.start \cup Written(c)
                   /\ c.origin = "fn"
                        => /\ c.issued = <<"BEGIN", "ROLLBACK">>
                           /\ c.thrown = "fn"
                           /\ schema = c.start

\* C19: while the engine holds a transaction this connection opened, a
\* further transaction call takes the re-entrant branch and fn runs directly;
\* entering and leaving it issues no statement and commits or discards
\* nothing; statements are issued and writes committed only as the outermost
\* call ends, which commits the writes of every fn or none of them.
C19_NoNestedUnit ==
    [][ \A p \in Callers :
          LET c == call[p]
              d == call'[p]
          IN  (c.open /\ inTransaction[p])
                  => /\ Len(d.frames) = Len(c.frames) + 1
                          => /\ Last(d.frames).nested
                             /\ d.pc = "body"
                             /\ d.issued = c.issued
                             /\ d.open /\ d.work = c.work
                             /\ schema' = schema
                     /\ (Len(c.frames) > 1 /\ Len(d.frames) = Len(c.frames) - 1)
                          => /\ Last(c.frames).nested
                             /\ d.issued = c.issued
                             /\ d.open = c.open /\ d.work = c.work
                             /\ schema' = schema
                     /\ (d.issued # c.issued \/ schema' # schema)
                          => Len(c.frames) = 1 /\ d.frames = <<>>
                     /\ (d.pc = "returned" /\ c.pc # "returned")
                          => schema' = IF d.thrown = "none" THEN c.start \cup Written(c)
                                       ELSE c.start ]_vars

C19_Witness ==
    \E p \in Callers :
        /\ call[p].pc = "returned"
        /\ call[p].top = "real"
        /\ call[p].deepest = MaxDepth
        /\ call[p].writes = 1..MaxDepth
        /\ call[p].issued = <<"BEGIN", "COMMIT">>
        /\ schema = Written(call[p])

\* C20: showStatus, whether it returns or throws, opens no transaction and
\* leaves the store and the connection's transaction flag as it found them;
\* what it prints is the current version, the highest version of the set it
\* read and the applied versions.
C20_StatusReadsOnly ==
    \A p \in Callers :
        LET c == call[p]
        IN  c.pc \in {"shown", "showfailed"}
                => /\ Store = c.start
                   /\ c.units = 0
                   /\ c.attempted = <<>>
                   /\ (c.pc = "showfailed") <=> ~ValidRead(Last(c.reads))
                   /\ c.pc = "shown"
                        => /\ IsCurrent(ledger, c.currentVersion)
                           /\ c.actualTarget = Len(Last(c.reads).source.migrations)

C20_Witness ==
    \E p \in Callers :
        /\ call[p].pc = "shown"
        /\ call[p].currentVersion = 1
        /\ call[p].actualTarget = MaxN
        /\ Versions(ledger) = {1}
        /\ call[p].prev.ok

\* C21: getCurrentVersion() is 0 when the ledger has no row and otherwise the
\* largest version recorded in it; an empty ledger never makes the read fail:
\* a call that met an empty ledger and a valid source goes on with version 0.
C21_CurrentVersionIsMax ==
    \A p \in Callers :
        LET c == call[p]
        IN  /\ (Running(c) /\ c.error.kind # "load") \/ c.pc = "shown"
                => /\ c.currentVersion \in Nat
                   /\ c.start.ledger = {} <=> c.currentVersion = 0
                   /\ c.start.ledger # {}
                        => /\ \E r \in c.start.ledger : r.version = c.currentVersion
                           /\ \A r \in c.start.ledger : r.version <= c.currentVersion
            /\ (c.pc \in {"failed", "showfailed"} /\ c.start.ledger = {}
                   /\ c.error.kind = "load")
                => ~ValidRead(Last(c.reads))

C21_Witness ==
    \E p \in Callers :
        /\ call[p].pc = "done"
        /\ Versions(call[p].start.ledger) = {1, 2}
        /\ call[p].currentVersion = 2
        /\ call[p].actualTarget = 1
        /\ Versions(ledger) = {1}

\* C22: the command-line tool exits with code 0 exactly when the operation it
\* was asked for completed without error (or the override told it to skip);
\* it exits with a non-zero code when the manager's call threw, when the
\* text after --to has no leading number, and when the command is unknown;
\* after a throwing call what it prints carries the error of that call.
C22_ExitCode ==
    LET cli == call[Cli]
        skipped == cli.env = Word("skip")
    IN  cli.pc = "exited"
            => /\ cli.code = 0 <=> (skipped \/ cli.outcome.pc \in {"done", "shown"})
               /\ cli.outcome.pc \in {"failed", "showfailed"}
                    => /\ cli.code # 0
                       /\ cli.outcome.error # NoError
                       /\ cli.stderr.error = cli.outcome.error
               /\ (~skipped /\ Len(cli.args) >= 2 /\ cli.args[1] = Word("--to")
                      /\ cli.args[2].digits = <<>>)
                    => cli.code # 0 /\ "migrateTo" \notin Range(cli.trace)
               /\ (~skipped /\ cli.args # <<>>
                      /\ cli.args[1] \notin {Word("latest"), Word("status"), Word("--to")})
                    => cli.code # 0 /\ cli.outcome.pc = "idle"
               /\ (~skipped /\ cli.args = <<Word("--to")>>) => cli.code # 0

C22_Witness ==
    /\ call[Cli].pc = "exited"
    /\ call[Cli].args = <<>>
    /\ call[Cli].code = 1
    /\ call[Cli].stderr = Output("Migration failed:", Err("apply", 2, "sql"))
    /\ Versions(ledger) = {1}
    /\ Versions(call[Cli].start.ledger) = {}

\* C23: with the override "skip" the tool exits with code 0 at once, whatever
\* the command: it opens no store, does not ensure the ledger table, calls
\* nothing of the manager and leaves the store as it was.  With a number as
\* override, the no-argument and the "latest" forms call migrateTo with that
\* number, not with "latest".
C23_Override ==
    LET cli == call[Cli]
    IN  /\ (cli.pc # "none" /\ cli.env = Word("skip"))
             => /\ cli.pc = "exited"
                /\ cli.code = 0
                /\ cli.trace = <<>>
                /\ call[Mgr].pc = "idle"
                /\ Store = cli.start
        /\ \A n \in 0..(MaxN + 1) :
             ( /\ cli.pc # "none"
               /\ cli.env = Num(n)
               /\ cli.args \in {<<>>, <<Word("latest")>>}
               /\ cli.trace # <<"open">> )
             => /\ Last(SubSeq(cli.trace, 1, 3)) = "migrateTo"
                /\ cli.request = To(n)
                /\ cli.pc = "awaiting"
                     => call[Mgr].request = To(n) /\ call[Mgr].pc # "idle"

C23_Witness ==
    /\ call[Cli].pc = "exited"
    /\ call[Cli].env = Num(1)
    /\ call[Cli].args = <<Word("latest")>>
    /\ call[Cli].code = 0
    /\ Versions(call[Cli].start.ledger) = {1, 2}
    /\ Versions(ledger) = {1}

\* C24: migrateTo stops at the first failure and never retries.  Once an error
\* is raised the call is over: until it is taken by the caller nothing is
\* executed, written to the ledger or opened as a transaction.  A transaction
\* is opened only for the version whose iteration was entered last, by a call
\* without error, and no version enters the loop twice, so each version's
\* step is attempted at most once in a call.
C24_AbortNoRetry ==
    [][ \A p \in Callers :
          LET c == call[p]
              d == call'[p]
          IN  /\ c.error # NoError => c.pc \in {"failed", "showfailed"}
              /\ c.pc = "failed"
                   => /\ ledger' = ledger
                      /\ schema' = schema
                      /\ inTransaction' = inTransaction
                      /\ d.pc = "idle"
              /\ (ledger' # ledger \/ schema' # schema)
                   => \E q \in Callers : call'[q].units = call[q].units + 1
              /\ d.units > c.units
                   => /\ d.units = c.units + 1
                      /\ c.pc = "resolving"
                      /\ c.error = NoError
                      /\ Last(c.attempted) = c.version
                      /\ c.version \notin Range(c.committed)
                      /\ c.units = Len(c.committed)
              /\ \A i, j \in 1..Len(d.attempted) :
                   i # j => d.attempted[i] # d.attempted[j]
              /\ d.units <= Len(d.attempted) ]_vars

C24_Witness ==
    \E p \in Callers :
        /\ call[p].pc = "failed"
        /\ call[p].request = To(MaxN)
        /\ call[p].error = Err("apply", 2, "sql")
        /\ call[p].attempted = <<1, 2>>
        /\ call[p].committed = <<1>>
        /\ call[p].units = 2
        /\ Versions(ledger) = {1}

\* C25: a call has at most one unit that has not committed, and such a unit
\* ends the call.  Whenever the call is suspended before a step (awaiting the
\* resolution of that step's SQL) every unit it opened has committed: the
\* versions entered so far are the committed ones followed by the one being
\* resolved, the ledger shows each committed step, and the store is the one
\* the last commit left.
C25_OneUnitAtATime ==
    \A p \in Callers :
        LET c == call[p]
        IN  /\ c.units \in {Len(c.committed), Len(c.committed) + 1}
            /\ c.units = Len(c.committed) + 1 => c.pc = "failed"
            /\ c.pc = "resolving"
                 => /\ c.attempted = Append(c.committed, c.version)
                    /\ c.units = Len(c.committed)
                    /\ Store = c.base
                    /\ \A v \in Range(c.committed) :
                         (c.direction = "up") <=> (v \in Versions(ledger))

C25_Witness ==
    \E p \in Callers :
        /\ call[p].pc = "resolving"
        /\ call[p].direction = "down"
        /\ call[p].committed = <<2>>
        /\ call[p].version = 1
        /\ call[p].units = 1
        /\ Versions(ledger) = {1}

\* C26: when a migrateTo(T) that aborted inside a step is followed by a new
\* migrateTo(T), T an integer, the new call reads the current version from
\* the ledger as the aborted call left it, enters first the version at which
\* the aborted call failed, enters no version the aborted call committed,
\* and, when it returns without error, leaves the ledger at T.
C26_Recovery ==
    \A p \in Callers :
        LET c == call[p]
            a == c.prev
        IN  ( /\ ~a.ok
              /\ a # NoCall
              /\ a.error.kind # "load"
              /\ c.request.kind = "version"
              /\ Planned(c) )
            => /\ c.request = a.request
               /\ IsCurrent(c.start.ledger, c.currentVersion)
               /\ c.attempted # <<>>
               /\ c.attempted[1] = a.error.version
               /\ Range(c.attempted) \cap Range(a.committed) = {}
               /\ c.pc = "done" => IsCurrent(ledger, c.actualTarget)
                                    /\ c.actualTarget = c.request.version

C26_Witness ==
    \E p \in Callers :
        /\ call[p].pc = "done"
        /\ call[p].request = To(MaxN)
        /\ call[p].prev # NoCall
        /\ call[p].prev.ok = FALSE
        /\ call[p].prev.error = Err("apply", 2, "insert")
        /\ call[p].prev.committed = <<1>>
        /\ call[p].attempted = <<2>>
        /\ Versions(ledger) = 1..MaxN

\* The ledger records exactly the versions 1..n for some n.
LedgerDense(rows) == Versions(rows) = 1..Cardinality(Versions(rows))

\* C27: two migrateTo calls on one database are not kept apart, and their
\* interleaving can corrupt the ledger.  The ledger stops being dense only
\* by a step of a call that planned from a current version another call has
\* since changed: the store is no longer the one the stepping call last saw
\* and the version it writes is not next to the ledger's top.  Such a step is
\* taken (C27_Witness): both calls return without error and the ledger holds
\* version 2 without version 1.
C27_StaleStepCorrupts ==
    [][ (LedgerDense(ledger) /\ ~LedgerDense(ledger'))
          => \E p \in Callers :
                LET c == call[p]
                    top == getCurrentVersion(ledger)
                IN  /\ c.pc = "resolving"
                    /\ call'[p].units = c.units + 1
                    /\ Store # c.base
                    /\ c.version # (IF c.direction = "up" THEN top + 1 ELSE top) ]_vars

C27_Witness ==
    /\ call["c1"].pc = "done"
    /\ call["c2"].pc = "done"
    /\ call["c1"].currentVersion = 1
    /\ call["c2"].currentVersion = 1
    /\ call["c1"].committed = <<2>>
    /\ call["c2"].committed = <<1>>
    /\ Versions(ledger) = {2}
    /\ ~LedgerDense(ledger)

\* C28: a file reference is resolved when its step is applied.  The forward
\* step of a migration whose up script is a file reference executes the text
\* the file holds at that moment, whatever it held when loadMigrations
\* validated it; when the file cannot be read at that moment the step fails
\* with the file error for that version, no unit is opened, and the steps
\* committed before stay in the ledger.
C28_LazyResolution ==
    [][ \A p \in Callers :
          LET c == call[p]
              d == call'[p]
              i == Find(c.migrations, c.version)
          IN  ( /\ c.pc = "resolving"
                /\ d # c
                /\ c.direction = "up"
                /\ c.migrations[i].up.kind = "file" )
              => LET text == files[c.migrations[i].up.file]
                 IN  /\ text = NoFile
                          => /\ d.pc = "failed"
                             /\ d.error = Err("apply", c.version, "file")
                             /\ d.units = c.units
                             /\ d.committed = c.committed
                             /\ ledger' = ledger /\ schema' = schema
                             /\ Range(c.committed) \subseteq Versions(ledger')
                     /\ d.committed # c.committed
                          => /\ text \notin {NoFile, EmptySql}
                             /\ schema' = Exec(text, schema)
                             /\ ledger' = ledger \cup {Row(c.migrations[i])} ]_vars

\* The file was readable when the set was validated and is gone when its
\* step, the second, is applied.
C28_Witness ==
    \E p \in Callers :
        /\ call[p].pc = "failed"
        /\ call[p].error = Err("apply", 2, "file")
        /\ Len(call[p].reads) = 1
        /\ ValidRead(call[p].reads[1])
        /\ call[p].committed = <<1>>
        /\ Versions(ledger) = {1}
        /\ files[UpPath] = NoFile

\* C29: the forward step of a migration whose up script resolves to the empty
\* text fails with the empty-script error for that version before any unit
\* is opened: the call opened a unit for each committed step only, the store
\* is the one the last commit left, the ledger has no row for the version
\* and keeps the rows of the steps committed before.
C29_EmptyScriptFails ==
    \A p \in Callers :
        LET c == call[p]
            v == Last(c.attempted)
            i == Find(c.migrations, v)
        IN  /\ ( /\ c.pc \in {"done", "failed"}
                  /\ c.direction = "up"
                  /\ c.attempted # <<>>
                  /\ i # 0
                  /\ c.migrations[i].up = Inline(EmptySql) )
                 => /\ c.pc = "failed"
                    /\ c.error = Err("apply", v, "empty")
                    /\ c.units = Len(c.committed)
                    /\ c.attempted = Append(c.committed, v)
                    /\ Store = c.base
                    /\ v \notin Versions(ledger)
                    /\ Range(c.committed) \subseteq Versions(ledger)
            /\ (c.direction = "up" /\ c.pc # "idle")
                 => \A w \in Range(c.committed) :
                      c.migrations[Find(c.migrations, w)].up # Inline(EmptySql)

\* The list refers to a file that cannot be read.
Unresolvable(h, fs) ==
    \E i \in 1..Len(h) :
        \/ h[i].up.kind = "file" /\ fs[h[i].up.file] = NoFile
        \/ h[i].down.kind = "file" /\ fs[h[i].down.file] = NoFile

\* C30: the sequence rule is applied to the whole sorted list before any file
\* reference is looked at.  A set whose sorted versions are not 1, 2, ..., N
\* fails with the sequence error, a file reference that cannot be read or
\* not, and none of its referenced files is read; a file error is reported
\* only for a set that passes the sequence rule, after reading the
\* references in order up to the one that fails.
C30_SequenceBeforeFiles ==
    \A p \in Callers :
        LET c == call[p]
            opened == Last(c.reads).opened
        IN  c.pc = "validated"
                => /\ ~DenseSorted(head)
                        => c.error.cause = "sequence" /\ opened = <<>>
                   /\ c.error.cause \in {"upfile", "downfile"}
                        => /\ DenseSorted(head)
                           /\ Unresolvable(head, files)
                           /\ opened # <<>>
                           /\ files[Last(opened)] = NoFile
                           /\ \A k \in 1..(Len(opened) - 1) : files[opened[k]] # NoFile
                   /\ (DenseSorted(head) /\ Unresolvable(head, files))
                        => c.error.cause \in {"upfile", "downfile"}

C30_Witness ==
    \E p \in Callers :
        /\ call[p].pc = "validated"
        /\ Len(head) = 2
        /\ head[1] = Migration(1, "file")
        /\ head[2] = Migration(3, "plain")
        /\ files[UpPath] = NoFile
        /\ call[p].error = SeqErr(2, 3)
        /\ Last(call[p].reads).opened = <<>>

\* C31: ledger rows are inserted and deleted, never updated.  A step that
\* commits forward for version v adds one row, keyed v, with the name and the
\* description of that migration, to a ledger that had none keyed v, and
\* leaves every other row as it was; a step that commits backward for v
\* removes the one row keyed v and leaves every other row; no other step
\* changes the ledger, and a row that stays keeps its content.
C31_InsertDeleteOnly ==
    [][ /\ \A r \in ledger, s \in ledger' : r.version = s.version => r = s
        /\ \A p \in Callers :
             LET c == call[p]
                 d == call'[p]
                 v == c.version
                 i == Find(c.migrations, v)
             IN  (c.pc = "resolving" /\ d.committed # c.committed)
                 => /\ d.committed = Append(c.committed, v)
                    /\ c.direction = "up"
                         => /\ v \notin Versions(ledger)
                            /\ \E r \in ledger' :
                                 /\ r.version = v
                                 /\ r.name = c.migrations[i].name
                                 /\ r.description = c.migrations[i].description
                                 /\ ledger' = ledger \cup {r}
                            /\ Cardinality(ledger') = Cardinality(ledger) + 1
                    /\ c.direction = "down"
                         => /\ \E r \in ledger : r.version = v /\ ledger' = ledger \ {r}
                            /\ Cardinality(ledger') = Cardinality(ledger) - 1
        /\ ledger' # ledger
             => \E p \in Callers :
                  call[p].pc = "resolving" /\ call'[p].committed # call[p].committed ]_vars

C31_Witness ==
    \E p \in Callers :
        /\ call[p].pc = "done"
        /\ call[p].direction = "down"
        /\ call[p].committed = <<2>>
        /\ Versions(call[p].start.ledger) = {1, 2}
        /\ ledger = {Row(head[1])}
        /\ head[1].name = "seed"

\* C32: with one caller at a time on a database that started empty, whatever
\* the targets and whether the calls return or throw, the ledger holds
\* exactly the versions 1..getCurrentVersion(), and getCurrentVersion() is at
\* most the number of migrations of the set.
C32_LedgerDense ==
    /\ Versions(ledger) = 1..getCurrentVersion(ledger)
    /\ Cardinality(ledger) = Cardinality(Versions(ledger))
    /\ getCurrentVersion(ledger) <= Len(head)

C32_Witness ==
    \E p \in Callers :
        /\ call[p].pc = "failed"
        /\ call[p].request = To(0)
        /\ call[p].committed = <<2>>
        /\ call[p].error.kind = "revert"
        /\ call[p].error.version = 1
        /\ call[p].prev.ok
        /\ Versions(ledger) = {1}

\* C33: whenever no transaction call of a connection is on the stack, its
\* inTransaction flag is false, whichever statement failed on the way out;
\* hence every outermost transaction call enters by BEGIN, never by the
\* re-entrant branch.
C33_FlagClearWhenIdle ==
    \A p \in Callers :
        LET c == call[p]
        IN  /\ c.frames = <<>> => ~inTransaction[p]
            /\ c.top # "nested"

\* C34: migrateTo(t) with t < 0 is not rejected before the steps: the call
\* goes backward from the current version, one committed step per version in
\* descending order, and never returns without error.  It fails with the
\* step-not-found error for version 0 exactly when it has reverted every
\* applied version down to 1, and the ledger is then empty.
C34_NegativeTarget ==
    \A p \in Callers :
        LET c == call[p]
        IN  (Planned(c) /\ c.request.kind = "version" /\ c.request.version < 0)
                => /\ c.direction = "down"
                   /\ c.pc # "done"
                   /\ c.attempted # <<>>
                   /\ c.attempted[1] = c.currentVersion
                   /\ c.committed = [k \in 1..Len(c.committed) |-> c.currentVersion + 1 - k]
                   /\ c.pc = "failed"
                        => ( Len(c.committed) = c.currentVersion
                               <=> c.error = Err("notfound", 0, "none") )
                   /\ c.error = Err("notfound", 0, "none")
                        => ledger = {} /\ Last(c.attempted) = 0

C34_Witness ==
    \E p \in Callers :
        /\ call[p].pc = "failed"
        /\ call[p].request = To(0 - 1)
        /\ Versions(call[p].start.ledger) = 1..MaxN
        /\ call[p].units = MaxN
        /\ Len(call[p].committed) = MaxN
        /\ call[p].error = Err("notfound", 0, "none")
        /\ ledger = {}

====
